---- MODULE Spec2Model ----
(***************************************************************************)
(* Change detection of the WordPress content exporter                      *)
(* (plugins/wordpress-tools/scripts/lib/checksum.js): hashObject and       *)
(* sortObjectKeys (canonical digest of a structured value),                *)
(* generateChecksums (digest set of a content directory) and               *)
(* compareChecksums (diff of two digest sets).                             *)
(*                                                                         *)
(* JavaScript values are tagged records.  A string is a sequence of        *)
(* tokens, so that concatenation is \o.  An object is the sequence of its  *)
(* own <<key, value>> pairs in property (insertion) order; keys are never  *)
(* array indices here (file names carry an extension, field names are      *)
(* words), so property order is insertion order.                           *)
(***************************************************************************)
EXTENDS Integers, Sequences, FiniteSets, TLC

VARIABLES
    first,             \* hashObject: the first call made, [obj, digest], or NoCall
    last,              \* hashObject: the latest later call, or NoCall
    excludeKeys,       \* hashObject: the excludeKeys argument of the calls
    exported,          \* compareChecksums: the checksums of the export
    remote,            \* compareChecksums: the remote checksums (null when none was loaded)
    result,            \* compareChecksums: the value returned, or NoResult
    contentDir,        \* the content directory on disk
    now,               \* the clock read by new Date()
    pc,                \* generateChecksums: where the call stands
    checksums,         \* generateChecksums: the object being filled
    files,             \* generateChecksums: the listing of contentDir
    mediaFiles,        \* generateChecksums: the listing of contentDir/media
    cursor,            \* generateChecksums: the place of the running loop in its listing
    settled,           \* generateChecksums: how the promise of the latest call settled
    failed,            \* the error of the awaited call that failed in the latest call, if any
    history,           \* the calls that returned: the directory read, the object returned
    calls,             \* the number of calls made
    edits              \* the number of changes made to the directory

hashVars == <<first, last, excludeKeys>>
compareVars == <<exported, remote, result>>
localVars == <<checksums, files, mediaFiles, cursor>>
buildVars ==
    <<contentDir, now, pc, checksums, files, mediaFiles, cursor, settled,
      failed, history, calls, edits>>
vars == <<hashVars, compareVars, buildVars>>

----------------------------------------------------------------------------
(* Bounds *)

MaxCalls == 2     \* calls of generateChecksums
MaxEdits == 1     \* changes of the content directory

----------------------------------------------------------------------------
(* JavaScript values *)

Undefined == [t |-> "undefined"]
Null == [t |-> "null"]
JStr(s) == [t |-> "string", s |-> s]
JNum(n) == [t |-> "number", n |-> n]
JArr(a) == [t |-> "array", a |-> a]
JObj(o) == [t |-> "object", o |-> o]

\* No call of hashObject, no result of compareChecksums
NoCall == [t |-> "none"]
NoResult == [t |-> "none"]

\* hashObject and compareChecksums are not in use
HashIdle ==
    /\ first = NoCall
    /\ last = NoCall
    /\ excludeKeys = <<>>

CompareIdle ==
    /\ exported = Undefined
    /\ remote = Undefined
    /\ result = NoResult

\* A property of an object
Field(k, v) == <<k, v>>

Range(s) == {s[n] : n \in 1..Len(s)}

\* Object.keys(o)
ObjectKeys(o) == [i \in 1..Len(o.o) |-> o.o[i][1]]

\* o[k]: undefined when o has no property k
Get(o, k) ==
    IF \E i \in 1..Len(o.o) : o.o[i][1] = k
    THEN o.o[CHOOSE i \in 1..Len(o.o) : o.o[i][1] = k][2]
    ELSE Undefined

\* o[k] = v: an existing property keeps its place, a new one is added last
Put(o, k, v) ==
    IF \E i \in 1..Len(o.o) : o.o[i][1] = k
    THEN JObj([i \in 1..Len(o.o) |-> IF o.o[i][1] = k THEN <<k, v>> ELSE o.o[i]])
    ELSE JObj(Append(o.o, <<k, v>>))

\* delete o[k]
Delete(o, k) ==
    LET keep(p) == p[1] # k IN JObj(SelectSeq(o.o, keep))

\* !v
Falsy(v) ==
    \/ v.t \in {"undefined", "null"}
    \/ v.t = "string" /\ v.s = <<>>
    \/ v.t = "number" /\ v.n = 0

\* a || {}
OrEmptyObject(a) == IF Falsy(a) THEN JObj(<<>>) ELSE a

\* The strings used as keys, in ascending order of their UTF-16 code units:
\* the order of the default comparison of Array.prototype.sort.
KeyOrder ==
    <<"date", "guid", "id", "k", "link", "meta", "modified", "slug", "title">>

\* keys.sort() for a sequence of distinct keys
Sort(keys) ==
    LET in(k) == k \in Range(keys) IN SelectSeq(KeyOrder, in)

\* JSON.stringify(v) for a value with no undefined in it
RECURSIVE JSONstringify(_)
JSONstringifyAll(items, i) ==
    (IF i = 1 THEN <<>> ELSE <<",">>) \o
    (IF items.t = "array"
     THEN JSONstringify(items.a[i])
     ELSE <<"\"", items.o[i][1], "\"", ":">> \o JSONstringify(items.o[i][2]))
RECURSIVE Join(_, _)
Join(items, n) ==
    IF n = 0 THEN <<>> ELSE Join(items, n - 1) \o JSONstringifyAll(items, n)
JSONstringify(v) ==
    CASE v.t = "null" -> <<"null">>
      [] v.t = "string" -> <<"\"">> \o v.s \o <<"\"">>
      [] v.t = "number" -> <<ToString(v.n)>>
      [] v.t = "array" -> <<"[">> \o Join(v, Len(v.a)) \o <<"]">>
      [] v.t = "object" -> <<"{">> \o Join(v, Len(v.o)) \o <<"}">>

----------------------------------------------------------------------------
(* hashString, hashObject, sortObjectKeys *)

\* SHA-256 as a symbolic one-way function: distinct contents have distinct
\* digests, and a digest is a string again (the hex form).
sha256(content) == <<"sha256(">> \o content \o <<")">>

hashString(content) == JStr(sha256(content))

\* Mutant: only the outermost object's keys are sorted.
sortObjectKeysShallow(obj) ==
    IF obj.t # "object"
    THEN obj
    ELSE LET keys == Sort(ObjectKeys(obj))
         IN  JObj([i \in 1..Len(keys) |-> <<keys[i], Get(obj, keys[i])>>])

RECURSIVE sortObjectKeys(_)
sortObjectKeys(obj) ==
    IF obj.t \notin {"array", "object"}
    THEN obj
    ELSE IF obj.t = "array"
    THEN JArr([i \in 1..Len(obj.a) |-> sortObjectKeys(obj.a[i])])
    ELSE LET keys == Sort(ObjectKeys(obj))
         IN  JObj([i \in 1..Len(keys) |->
                     <<keys[i], sortObjectKeys(Get(obj, keys[i]))>>])

\* Mutant: the caller's excludeKeys are not added to the list.
dynamicFieldsBuiltinOnly(excl) == <<"id", "date", "modified", "guid", "link">>

dynamicFields(excl) == <<"id", "date", "modified", "guid", "link">> \o excl

RECURSIVE DeleteAll(_, _)
DeleteAll(o, keys) ==
    IF keys = <<>> THEN o ELSE DeleteAll(Delete(o, Head(keys)), Tail(keys))

\* Mutant: the dynamic fields are deleted at every depth.
RECURSIVE DeleteDeep(_, _)
DeleteDeep(v, keys) ==
    IF v.t = "array"
    THEN JArr([i \in 1..Len(v.a) |-> DeleteDeep(v.a[i], keys)])
    ELSE IF v.t = "object"
    THEN LET kept == DeleteAll(v, keys)
         IN  JObj([i \in 1..Len(kept.o) |->
                     <<kept.o[i][1], DeleteDeep(kept.o[i][2], keys)>>])
    ELSE v
hashObjectDeepFilter(obj, excl) ==
    hashString(JSONstringify(sortObjectKeys(
        DeleteDeep(JObj(obj.o), dynamicFields(excl)))))

hashObject(obj, excl) ==
    LET filtered == DeleteAll(JObj(obj.o), dynamicFields(excl))
        sorted == sortObjectKeys(filtered)
    IN  hashString(JSONstringify(sorted))

----------------------------------------------------------------------------
(* compareChecksums *)

Result(changed, reason, changedFiles, changedMedia) ==
    [changed |-> changed, reason |-> reason,
     details |-> [files |-> changedFiles, media |-> changedMedia]]

\* Mutant: a missing remote set is reported as no change.
NoRemoteResultUnchanged == Result(FALSE, "no-remote-checksums", <<>>, <<>>)

NoRemoteResult == Result(TRUE, "no-remote-checksums", <<>>, <<>>)

CombinedMatchResult == Result(FALSE, "combined-match", <<>>, <<>>)

\* Mutant: the loop runs over the remote entries.
RECURSIVE mismatchesOfRemote(_, _, _)
mismatchesOfRemote(mine, theirs, n) ==
    IF n = 0
    THEN <<>>
    ELSE LET file == theirs.o[n][1]
             hash == theirs.o[n][2]
             before == mismatchesOfRemote(mine, theirs, n - 1)
         IN  IF Get(mine, file) # hash THEN Append(before, file) ELSE before

\* for (const [file, hash] of Object.entries(mine))
\*   if (theirs[file] !== hash) changed.push(file)
\* over the first n entries of mine
RECURSIVE mismatches(_, _, _)
mismatches(mine, theirs, n) ==
    IF n = 0
    THEN <<>>
    ELSE LET file == mine.o[n][1]
             hash == mine.o[n][2]
             before == mismatches(mine, theirs, n - 1)
         IN  IF Get(theirs, file) # hash THEN Append(before, file) ELSE before

\* Mutant: a new media file is pushed without looking for it in the list.
RECURSIVE newMediaPushAlways(_, _, _, _)
newMediaPushAlways(changedMedia, exportMedia, remoteMedia, n) ==
    IF n = 0
    THEN changedMedia
    ELSE LET file == exportMedia.o[n][1]
             before == newMediaPushAlways(changedMedia, exportMedia, remoteMedia, n - 1)
         IN  IF Falsy(Get(remoteMedia, file)) THEN Append(before, file) ELSE before

\* for (const file of Object.keys(exportMedia))
\*   if (!remoteMedia[file]) if (!changedMedia.includes(file)) changedMedia.push(file)
\* over the first n keys of exportMedia
RECURSIVE newMedia(_, _, _, _)
newMedia(changedMedia, exportMedia, remoteMedia, n) ==
    IF n = 0
    THEN changedMedia
    ELSE LET file == exportMedia.o[n][1]
             before == newMedia(changedMedia, exportMedia, remoteMedia, n - 1)
         IN  IF Falsy(Get(remoteMedia, file)) /\ file \notin Range(before)
             THEN Append(before, file)
             ELSE before

\* Mutant: only the files decide `changed`.
verdictFilesOnly(changedFiles, changedMedia) ==
    LET changed == Len(changedFiles) > 0
    IN  Result(changed, IF changed THEN "content-changed" ELSE "match",
               changedFiles, changedMedia)

verdict(changedFiles, changedMedia) ==
    LET changed == Len(changedFiles) > 0 \/ Len(changedMedia) > 0
    IN  Result(changed, IF changed THEN "content-changed" ELSE "match",
               changedFiles, changedMedia)

detailedComparison(exportChecksums, remoteChecksums) ==
    LET exportFiles == OrEmptyObject(Get(exportChecksums, "files"))
        remoteFiles == OrEmptyObject(Get(remoteChecksums, "files"))
        changedFiles == mismatches(exportFiles, remoteFiles, Len(exportFiles.o))
        exportMedia == OrEmptyObject(Get(exportChecksums, "media"))
        remoteMedia == OrEmptyObject(Get(remoteChecksums, "media"))
        changedMedia ==
            newMedia(mismatches(exportMedia, remoteMedia, Len(exportMedia.o)),
                     exportMedia, remoteMedia, Len(exportMedia.o))
    IN  verdict(changedFiles, changedMedia)

\* Mutant: no quick check of the combined hash.
compareChecksumsNoQuickCheck(exportChecksums, remoteChecksums) ==
    IF Falsy(remoteChecksums)
    THEN NoRemoteResult
    ELSE detailedComparison(exportChecksums, remoteChecksums)

compareChecksums(exportChecksums, remoteChecksums) ==
    IF Falsy(remoteChecksums)
    THEN NoRemoteResult
    ELSE IF Get(exportChecksums, "combined") = Get(remoteChecksums, "combined")
    THEN CombinedMatchResult
    ELSE detailedComparison(exportChecksums, remoteChecksums)

\* The combined hash of generateChecksums
\* Mutant: the combined hash leaves the media out.
combinedHashFilesOnly(fileSums, mediaSums) ==
    hashString(JSONstringify(fileSums))

combinedHash(fileSums, mediaSums) ==
    hashString(JSONstringify(fileSums) \o JSONstringify(OrEmptyObject(mediaSums)))

----------------------------------------------------------------------------
(* The file system under contentDir, as generateChecksums reads it.  A     *)
(* directory lists its entries in the order readdir returns them.  A file  *)
(* holds raw bytes, or the text of a JSON document (kept as the value it   *)
(* parses to).  Each call that touches the disk may also fail.             *)

Missing == [kind |-> "missing"]
File(content) == [kind |-> "file", content |-> content]
Dir(entries) == [kind |-> "dir", entries |-> entries]
Entry(name, node) == [name |-> name, node |-> node]
Raw(bytes) == [raw |-> bytes]
Json(value) == [json |-> value]

\* The entry of directory dir under name
Child(dir, name) ==
    IF dir.kind = "dir" /\ \E n \in 1..Len(dir.entries) : dir.entries[n].name = name
    THEN dir.entries[CHOOSE n \in 1..Len(dir.entries) : dir.entries[n].name = name].node
    ELSE Missing

\* join(contentDir, ...path): the node the path names
RECURSIVE NodeAt(_, _)
NodeAt(dir, path) ==
    IF path = <<>> THEN dir ELSE NodeAt(Child(dir, Head(path)), Tail(path))

Ok(value) == [ok |-> TRUE, value |-> value]
Err(error) == [ok |-> FALSE, error |-> error]

\* The bytes of a file
Bytes(content) ==
    IF "raw" \in DOMAIN content THEN content.raw ELSE JSONstringify(content.json)

\* fs.pathExists(path)
pathExists(dir, path) == NodeAt(dir, path).kind # "missing"

\* The ways fs.readFile(path) can end
readFile(dir, path) ==
    LET node == NodeAt(dir, path)
    IN  CASE node.kind = "missing" -> {Err("ENOENT")}
          [] node.kind = "dir" -> {Err("EISDIR")}
          [] node.kind = "file" -> {Ok(Bytes(node.content)), Err("EIO")}

\* The ways fs.readJson(path) can end: the read fails, or JSON.parse throws
readJson(dir, path) ==
    LET node == NodeAt(dir, path)
    IN  {IF ~read.ok THEN read
         ELSE IF "json" \in DOMAIN node.content THEN Ok(node.content.json)
         ELSE Err("SyntaxError") : read \in readFile(dir, path)}

\* The ways fs.stat(path) can end
stat(dir, path) ==
    LET node == NodeAt(dir, path)
    IN  IF node.kind = "missing"
        THEN {Err("ENOENT")}
        ELSE {Ok([isFile |-> node.kind = "file"]), Err("EACCES")}

\* The ways fs.readdir(path) can end
readdir(dir, path) ==
    LET node == NodeAt(dir, path)
    IN  CASE node.kind = "missing" -> {Err("ENOENT")}
          [] node.kind = "file" -> {Err("ENOTDIR")}
          [] node.kind = "dir" ->
               {Ok([n \in 1..Len(node.entries) |-> node.entries[n].name]),
                Err("EACCES")}

\* Mutant: a file that cannot be read hashes as an empty one.
hashFileEmptyOnError(dir, filePath) ==
    {IF read.ok THEN Ok(JStr(sha256(read.value))) ELSE Ok(JStr(sha256(<<>>))) :
       read \in readFile(dir, filePath)}

\* The ways hashFile(filePath) can end
hashFile(dir, filePath) ==
    {IF read.ok THEN Ok(JStr(sha256(read.value))) ELSE read :
       read \in readFile(dir, filePath)}

----------------------------------------------------------------------------
(* generateChecksums(contentDir), one step per awaited call *)

NoValue == [t |-> "none"]
NoError == "none"
Pending == [state |-> "pending"]
Fulfilled(value) == [state |-> "fulfilled", value |-> value]
Rejected(reason) == [state |-> "rejected", reason |-> reason]

\* new Date().toISOString()
toISOString(time) == JStr(<<"T", ToString(time)>>)

\* file.endsWith('.json'), for the names in use
endsWithJson(file) ==
    file \in {"metadata.json", "media-mapping.json", "checksums.json",
              "seo.json", "acf.json"}

\* ['metadata.json', 'media-mapping.json', 'checksums.json'].includes(file)
reserved(file) ==
    file \in {"metadata.json", "media-mapping.json", "checksums.json"}

\* checksums[key][file] = hash
PutIn(obj, key, file, hash) == Put(obj, key, Put(Get(obj, key), file, hash))

\* The frame of a call is dropped when the call ends
DropFrame ==
    /\ checksums' = NoValue
    /\ files' = <<>>
    /\ mediaFiles' = <<>>
    /\ cursor' = 0

\* An awaited call rejected: the error leaves generateChecksums
Throw(error) ==
    /\ pc' = "thrown"
    /\ settled' = Rejected(error)
    /\ DropFrame
    /\ UNCHANGED <<contentDir, now, history, calls, edits>>

\* The awaited call ended as `outcome`: its error, if any, is on record
Awaited(outcome) == failed' = IF outcome.ok THEN failed ELSE outcome.error

\* The call goes on at `next` with its object and loop place updated
Continue(next, filled, place) ==
    /\ pc' = next
    /\ checksums' = filled
    /\ cursor' = place
    /\ UNCHANGED <<files, mediaFiles>>
    /\ UNCHANGED <<contentDir, now, settled, history, calls, edits>>

\* Lines 72-76; the clock has moved on since the call before
Begin ==
    /\ pc \in {"idle", "returned", "thrown"}
    /\ UNCHANGED <<hashVars, compareVars>>
    /\ calls < MaxCalls
    /\ calls' = calls + 1
    /\ now' = now + 1
    /\ checksums' = JObj(<<Field("version", JNum(1)),
                           Field("generated", toISOString(now')),
                           Field("files", JObj(<<>>))>>)
    /\ pc' = "body"
    /\ settled' = Pending
    /\ failed' = NoError
    /\ UNCHANGED <<contentDir, files, mediaFiles, cursor, history, edits>>

\* Lines 79-82
HashBody ==
    /\ pc = "body"
    /\ UNCHANGED <<hashVars, compareVars>>
    /\ IF pathExists(contentDir, <<"body.html">>)
       THEN \E hash \in hashFile(contentDir, <<"body.html">>) :
              /\ Awaited(hash)
              /\ \/ /\ hash.ok
                    /\ Continue("metadata",
                                PutIn(checksums, "files", "body.html", hash.value),
                                cursor)
                 \/ /\ ~hash.ok
                    /\ Throw(hash.error)
       ELSE Continue("metadata", checksums, cursor) /\ UNCHANGED failed

\* Lines 85-89
HashMetadata ==
    /\ pc = "metadata"
    /\ UNCHANGED <<hashVars, compareVars>>
    /\ IF pathExists(contentDir, <<"metadata.json">>)
       THEN \E metadata \in readJson(contentDir, <<"metadata.json">>) :
              /\ Awaited(metadata)
              /\ \/ /\ metadata.ok
                    /\ Continue("readdir",
                                PutIn(checksums, "files", "metadata.json",
                                      hashObject(metadata.value, <<>>)), cursor)
                 \/ /\ ~metadata.ok
                    /\ Throw(metadata.error)
       ELSE Continue("readdir", checksums, cursor) /\ UNCHANGED failed

\* Line 92
ReadDir ==
    /\ pc = "readdir"
    /\ UNCHANGED <<hashVars, compareVars>>
    /\ \E listing \in readdir(contentDir, <<>>) :
         /\ Awaited(listing)
         /\ \/ /\ listing.ok
               /\ files' = listing.value
               /\ pc' = IF listing.value = <<>> THEN "media" ELSE "extensions"
               /\ cursor' = 1
               /\ UNCHANGED <<checksums, mediaFiles>>
               /\ UNCHANGED <<contentDir, now, settled, history, calls, edits>>
            \/ /\ ~listing.ok
               /\ Throw(listing.error)

\* Lines 93-101, one file of the listing
HashExtension ==
    /\ pc = "extensions"
    /\ UNCHANGED <<hashVars, compareVars>>
    /\ LET file == files[cursor]
           next == IF cursor = Len(files) THEN "media" ELSE "extensions"
       IN  IF endsWithJson(file) /\ ~reserved(file)
           THEN \E st \in stat(contentDir, <<file>>) :
                  \/ /\ st.ok /\ st.value.isFile
                     /\ \E hash \in hashFile(contentDir, <<file>>) :
                          /\ Awaited(hash)
                          /\ \/ /\ hash.ok
                                /\ Continue(next,
                                            PutIn(checksums, "files", file, hash.value),
                                            cursor + 1)
                             \/ /\ ~hash.ok
                                /\ Throw(hash.error)
                  \/ /\ st.ok /\ ~st.value.isFile
                     /\ Awaited(st)
                     /\ Continue(next, checksums, cursor + 1)
                  \/ /\ ~st.ok
                     /\ Awaited(st)
                     /\ Throw(st.error)
           ELSE Continue(next, checksums, cursor + 1) /\ UNCHANGED failed

\* Lines 104-107
ReadMediaDir ==
    /\ pc = "media"
    /\ UNCHANGED <<hashVars, compareVars>>
    /\ IF pathExists(contentDir, <<"media">>)
       THEN \E listing \in readdir(contentDir, <<"media">>) :
              /\ Awaited(listing)
              /\ \/ /\ listing.ok
                    /\ mediaFiles' = listing.value
                    /\ checksums' = Put(checksums, "media", JObj(<<>>))
                    /\ pc' = IF listing.value = <<>> THEN "combine" ELSE "mediaFiles"
                    /\ cursor' = 1
                    /\ UNCHANGED files
                    /\ UNCHANGED <<contentDir, now, settled, history, calls, edits>>
                 \/ /\ ~listing.ok
                    /\ Throw(listing.error)
       ELSE Continue("combine", checksums, cursor) /\ UNCHANGED failed

\* Lines 108-114, one file of the listing
HashMedia ==
    /\ pc = "mediaFiles"
    /\ UNCHANGED <<hashVars, compareVars>>
    /\ LET file == mediaFiles[cursor]
           next == IF cursor = Len(mediaFiles) THEN "combine" ELSE "mediaFiles"
       IN  \E st \in stat(contentDir, <<"media", file>>) :
             \/ /\ st.ok /\ st.value.isFile
                /\ \E hash \in hashFile(contentDir, <<"media", file>>) :
                     /\ Awaited(hash)
                     /\ \/ /\ hash.ok
                           /\ Continue(next,
                                       PutIn(checksums, "media", file, hash.value),
                                       cursor + 1)
                        \/ /\ ~hash.ok
                           /\ Throw(hash.error)
             \/ /\ st.ok /\ ~st.value.isFile
                /\ Awaited(st)
                /\ Continue(next, checksums, cursor + 1)
             \/ /\ ~st.ok
                /\ Awaited(st)
                /\ Throw(st.error)

\* Lines 118-120
Return ==
    /\ pc = "combine"
    /\ UNCHANGED <<hashVars, compareVars>>
    /\ LET done == Put(checksums, "combined",
                       combinedHash(Get(checksums, "files"), Get(checksums, "media")))
       IN  /\ settled' = Fulfilled(done)
           /\ history' = Append(history, [dir |-> contentDir, out |-> done])
    /\ pc' = "returned"
    /\ DropFrame
    /\ UNCHANGED <<contentDir, now, failed, calls, edits>>

generateChecksums ==
    \/ Begin
    \/ HashBody
    \/ HashMetadata
    \/ ReadDir
    \/ HashExtension
    \/ ReadMediaDir
    \/ HashMedia
    \/ Return

BuildIdle ==
    /\ contentDir = Missing
    /\ now = 1
    /\ pc = "idle"
    /\ checksums = NoValue
    /\ files = <<>>
    /\ mediaFiles = <<>>
    /\ cursor = 0
    /\ settled = NoValue
    /\ failed = NoError
    /\ history = <<>>
    /\ calls = 0
    /\ edits = 0

----------------------------------------------------------------------------
(* The content directory: what an export leaves there, and what a later    *)
(* export, or anything else, changes in it between two calls.              *)

Text(word) == JStr(<<word>>)
Html1 == Raw(<<"<p>Hi</p>">>)
Html2 == Raw(<<"<p>Bye</p>">>)
Meta1 ==
    Json(JObj(<<Field("id", JNum(1)), Field("title", Text("Hi")),
                Field("date", Text("2024-01-01"))>>))
\* Meta1 exported again: another id and date, the keys in another order
Meta2 ==
    Json(JObj(<<Field("date", Text("2024-02-02")), Field("title", Text("Hi")),
                Field("id", JNum(99))>>))
\* Meta1 with another title
Meta3 ==
    Json(JObj(<<Field("id", JNum(1)), Field("title", Text("Hello")),
                Field("date", Text("2024-01-01"))>>))
\* Not a JSON document
MetaBroken == Raw(<<"{">>)
Seo1 == Raw(<<"{\"seo\":1}">>)
Seo2 == Raw(<<"{\"seo\":2}">>)
Acf1 == Raw(<<"{\"acf\":1}">>)
Photo1 == Raw(<<"jpeg-1">>)
Photo2 == Raw(<<"jpeg-2">>)
Logo1 == Raw(<<"png-1">>)
Saved == Raw(<<"checksums">>)

ExportedDir ==
    Dir(<<Entry("body.html", File(Html1)),
          Entry("metadata.json", File(Meta1)),
          Entry("seo.json", File(Seo1)),
          Entry("checksums.json", File(Saved)),
          Entry("media", Dir(<<Entry("photo.jpg", File(Photo1))>>))>>)

\* The same files listed in another order, with a second extension file
ExportedDirOtherOrder ==
    Dir(<<Entry("media", Dir(<<Entry("logo.png", File(Logo1)),
                               Entry("photo.jpg", File(Photo1))>>)),
          Entry("acf.json", File(Acf1)),
          Entry("media-mapping.json", File(Saved)),
          Entry("seo.json", File(Seo1)),
          Entry("metadata.json", File(Meta1)),
          Entry("body.html", File(Html1))>>)

\* Directories where the code looks for files
OddDir ==
    Dir(<<Entry("metadata.json", File(Meta1)),
          Entry("seo.json", Dir(<<>>)),
          Entry("media", Dir(<<Entry("thumbs", Dir(<<>>)),
                               Entry("photo.jpg", File(Photo1))>>))>>)

\* media is a regular file, body.html a directory
WrongKindsDir ==
    Dir(<<Entry("body.html", Dir(<<>>)), Entry("media", File(Saved))>>)

InitialDirs ==
    {Missing, Dir(<<>>), ExportedDir, ExportedDirOtherOrder, OddDir,
     WrongKindsDir, Dir(<<Entry("media", File(Saved))>>)}

\* dir with `node` under `name`: in the place of the entry of that name, or
\* as a new entry listed first or last
WithChild(dir, name, node, listedFirst) ==
    IF Child(dir, name) # Missing
    THEN Dir([n \in 1..Len(dir.entries) |->
                IF dir.entries[n].name = name THEN Entry(name, node)
                ELSE dir.entries[n]])
    ELSE IF listedFirst
    THEN Dir(<<Entry(name, node)>> \o dir.entries)
    ELSE Dir(Append(dir.entries, Entry(name, node)))

WithoutChild(dir, name) ==
    LET others(e) == e.name # name IN Dir(SelectSeq(dir.entries, others))

\* What may be written: the path and the content
Writes ==
    {<<<<"body.html">>, Html2>>,
     <<<<"metadata.json">>, Meta2>>,
     <<<<"metadata.json">>, Meta3>>,
     <<<<"metadata.json">>, MetaBroken>>,
     <<<<"seo.json">>, Seo2>>,
     <<<<"acf.json">>, Acf1>>,
     <<<<"media", "photo.jpg">>, Photo2>>,
     <<<<"media", "logo.png">>, Logo1>>}

Removals ==
    {<<"body.html">>, <<"metadata.json">>, <<"seo.json">>, <<"media">>,
     <<"media", "photo.jpg">>}

Parent(path) == SubSeq(path, 1, Len(path) - 1)

BetweenCalls == pc \in {"idle", "returned", "thrown"}

Changed(dir) ==
    /\ contentDir' = dir
    /\ edits' = edits + 1
    /\ UNCHANGED <<now, pc, localVars, settled, failed, history, calls>>

WriteFile ==
    /\ BetweenCalls
    /\ UNCHANGED <<hashVars, compareVars>>
    /\ edits < MaxEdits
    /\ \E w \in Writes, listedFirst \in BOOLEAN :
         LET path == w[1]
             name == path[Len(path)]
             parent == NodeAt(contentDir, Parent(path))
             written == WithChild(parent, name, File(w[2]), listedFirst)
         IN  /\ parent.kind = "dir"
             /\ NodeAt(contentDir, path).kind # "dir"
             /\ NodeAt(contentDir, path) # File(w[2])
             /\ Changed(IF Len(path) = 1 THEN written
                        ELSE WithChild(contentDir, path[1], written, listedFirst))

Remove ==
    /\ BetweenCalls
    /\ UNCHANGED <<hashVars, compareVars>>
    /\ edits < MaxEdits
    /\ \E path \in Removals :
         LET name == path[Len(path)]
             parent == NodeAt(contentDir, Parent(path))
             removed == WithoutChild(parent, name)
         IN  /\ NodeAt(contentDir, path) # Missing
             /\ Changed(IF Len(path) = 1 THEN removed
                        ELSE WithChild(contentDir, path[1], removed, FALSE))

RemoveDir ==
    /\ BetweenCalls
    /\ UNCHANGED <<hashVars, compareVars>>
    /\ edits < MaxEdits
    /\ contentDir # Missing
    /\ Changed(Missing)

Init ==
    /\ contentDir \in InitialDirs
    /\ now = 1
    /\ pc = "idle"
    /\ checksums = NoValue
    /\ files = <<>>
    /\ mediaFiles = <<>>
    /\ cursor = 0
    /\ settled = NoValue
    /\ failed = NoError
    /\ history = <<>>
    /\ calls = 0
    /\ edits = 0
    /\ HashIdle
    /\ CompareIdle

Next ==
    \/ generateChecksums
    \/ WriteFile
    \/ Remove
    \/ RemoveDir

Spec == Init /\ [][Next]_vars

----------------------------------------------------------------------------
(* Calls of hashObject: an export hashes a metadata object, a re-export    *)
(* hashes another one with the same excludeKeys.                           *)

\* All the ways to list the members of S
Orderings(S) ==
    {s \in [1..Cardinality(S) -> S] : \A i, j \in 1..Cardinality(S) : i # j => s[i] # s[j]}

Nested(id) == JObj(<<Field("id", JNum(id)), Field("k", JNum(1))>>)

IdChoices == {Undefined, JNum(1), JNum(2)}
TitleChoices == {JStr(<<"Hi">>), JStr(<<"Hello">>)}
MetaChoices ==
    {Undefined, Nested(1), Nested(2),
     JObj(<<Field("k", JNum(1)), Field("id", JNum(1))>>),
     JArr(<<JObj(<<Field("id", JNum(1))>>)>>),
     JArr(<<JObj(<<Field("id", JNum(2))>>)>>)}
GuidChoices ==
    {Undefined, JObj(<<Field("id", JNum(1))>>), JObj(<<Field("id", JNum(2))>>)}

\* The objects holding the given fields (undefined: no such field), in any
\* key order
ObjectsOf(id, title, meta, guid) ==
    LET fields == {f \in {Field("id", id), Field("title", title),
                          Field("meta", meta), Field("guid", guid)} :
                     f[2] # Undefined}
    IN  {JObj(s) : s \in Orderings(fields)}

MetadataValues ==
    UNION {ObjectsOf(id, title, meta, guid) :
             id \in IdChoices, title \in TitleChoices,
             meta \in MetaChoices, guid \in GuidChoices}

\* The first export: one key order per choice of fields
FirstValues ==
    {JObj(SelectSeq(<<Field("id", id), Field("title", JStr(<<"Hi">>)),
                      Field("meta", meta), Field("guid", guid)>>,
                    LAMBDA f : f[2] # Undefined)) :
       id \in {Undefined, JNum(1)},
       meta \in {Undefined, Nested(1), JArr(<<JObj(<<Field("id", JNum(1))>>)>>)},
       guid \in {Undefined, JObj(<<Field("id", JNum(1))>>)}}

ExcludeKeysChoices == {<<>>, <<"title">>, <<"meta">>}

HashInit ==
    /\ first = NoCall
    /\ last = NoCall
    /\ excludeKeys \in ExcludeKeysChoices
    /\ CompareIdle
    /\ BuildIdle

Call(obj) == [obj |-> obj, digest |-> hashObject(obj, excludeKeys)]

Export ==
    /\ first = NoCall
    /\ \E obj \in FirstValues : first' = Call(obj)
    /\ UNCHANGED <<last, excludeKeys>>
    /\ UNCHANGED <<compareVars, buildVars>>

ReExport ==
    /\ first # NoCall
    /\ last = NoCall
    /\ \E obj \in MetadataValues : last' = Call(obj)
    /\ UNCHANGED <<first, excludeKeys>>
    /\ UNCHANGED <<compareVars, buildVars>>

HashNext == Export \/ ReExport

SpecHash == HashInit /\ [][HashNext]_vars

----------------------------------------------------------------------------
(* Properties of hashObject *)

BothCalled == first # NoCall /\ last # NoCall

\* a and b hold the same fields, at every depth, in any key order
RECURSIVE KeyReordered(_, _)
KeyReordered(a, b) ==
    /\ a.t = b.t
    /\ CASE a.t = "array" ->
              /\ Len(a.a) = Len(b.a)
              /\ \A i \in 1..Len(a.a) : KeyReordered(a.a[i], b.a[i])
         [] a.t = "object" ->
              /\ Range(ObjectKeys(a)) = Range(ObjectKeys(b))
              /\ \A k \in Range(ObjectKeys(a)) : KeyReordered(Get(a, k), Get(b, k))
         [] OTHER -> a = b

\* C5: hashObject returns the same digest for a value and for every copy of
\* it whose objects, at any depth, hold the same fields in another key order
\* (the value itself included: repeated calls agree).
C5_KeyOrderIndependent ==
    (BothCalled /\ KeyReordered(first.obj, last.obj))
        => last.digest = first.digest

\* C5 witness: a copy reordered at the top level and inside meta was hashed.
C5_Witness ==
    /\ BothCalled
    /\ KeyReordered(first.obj, last.obj)
    /\ ObjectKeys(first.obj) # ObjectKeys(last.obj)
    /\ Get(first.obj, "meta") # Undefined
    /\ Get(first.obj, "meta") # Get(last.obj, "meta")
    /\ Get(first.obj, "id") # Undefined

\* The names the claims call excluded: the five dynamic fields and the names
\* in excludeKeys
ExcludedNames ==
    {"id", "date", "modified", "guid", "link"} \cup Range(excludeKeys)

\* The top-level fields of o other than the excluded ones, in order
Remaining(o) ==
    LET kept(f) == f[1] \notin ExcludedNames IN SelectSeq(o.o, kept)

\* C6: two values that differ only in the presence or value of top-level
\* keys id, date, modified, guid, link or of top-level keys named in
\* excludeKeys have the same digest.
C6_DynamicFieldsIgnored ==
    (BothCalled /\ Remaining(first.obj) = Remaining(last.obj))
        => last.digest = first.digest

\* C6 witness: the two values differ in the value of id, in the presence of
\* guid and in the value of a key named in excludeKeys.
C6_Witness ==
    /\ BothCalled
    /\ Remaining(first.obj) = Remaining(last.obj)
    /\ excludeKeys = <<"title">>
    /\ Get(first.obj, "title") # Get(last.obj, "title")
    /\ Get(first.obj, "id") = JNum(1) /\ Get(last.obj, "id") = JNum(2)
    /\ Get(first.obj, "guid") # Undefined /\ Get(last.obj, "guid") = Undefined
    /\ Get(first.obj, "meta") # Undefined

\* a and b are equal but for the values of fields with an excluded name that
\* sit below the top level, inside a nested object or an element of an array
\* (inside: whether a and b are themselves below the top level)
RECURSIVE EqualButNested(_, _, _)
EqualButNested(a, b, inside) ==
    /\ a.t = b.t
    /\ CASE a.t = "array" ->
              /\ Len(a.a) = Len(b.a)
              /\ \A i \in 1..Len(a.a) : EqualButNested(a.a[i], b.a[i], TRUE)
         [] a.t = "object" ->
              /\ ObjectKeys(a) = ObjectKeys(b)
              /\ \A k \in Range(ObjectKeys(a)) :
                    \/ inside /\ k \in ExcludedNames
                    \/ EqualButNested(Get(a, k), Get(b, k), TRUE)
         [] OTHER -> a = b

NestedFieldChanged ==
    /\ BothCalled
    /\ first.obj # last.obj
    /\ EqualButNested(first.obj, last.obj, FALSE)

\* C7 as stated: changing the value of a field with an excluded name that
\* sits inside a nested object or an array element, everything else equal,
\* changes the digest.
C7_NestedChangeAlwaysSeen ==
    NestedFieldChanged => last.digest # first.digest

\* C7 amended: ... provided the changed field does not sit inside the value
\* of a top-level key that is itself excluded.
C7_NestedChangeSeenOutsideExcluded ==
    (NestedFieldChanged /\
     \A k \in ExcludedNames : Get(first.obj, k) = Get(last.obj, k))
        => last.digest # first.digest

\* C7 witness: the id inside meta (an object, or an element of an array)
\* changed, meta is not excluded, and the top-level id is there and equal.
C7_Witness ==
    /\ NestedFieldChanged
    /\ \A k \in ExcludedNames : Get(first.obj, k) = Get(last.obj, k)
    /\ Get(first.obj, "meta") # Get(last.obj, "meta")
    /\ Get(first.obj, "id") # Undefined
    /\ Get(first.obj, "guid") # Undefined

----------------------------------------------------------------------------
(* Calls of compareChecksums on two checksums objects.  A checksums object *)
(* is as generateChecksums builds it; its combined hash is the one of its  *)
(* files and media, or a stale one (that of an empty directory), as in a   *)
(* checksums file that was not regenerated.                                *)

FileNames == {"body.html", "metadata.json"}
MediaNames == {"photo.jpg", "logo.png"}
Digests == {hashString(<<"a">>), hashString(<<"b">>)}

\* The objects mapping some of the names to digests, in any key order
Mappings(names) ==
    UNION {UNION {{JObj([i \in 1..Len(keys) |-> <<keys[i], d[keys[i]]>>]) :
                     keys \in Orderings(present)} :
                  d \in [present -> Digests]} :
           present \in SUBSET names}

StaleCombined == combinedHash(JObj(<<>>), Undefined)

ChecksumsObject(generated, fileSums, mediaSums, combined) ==
    JObj(<<Field("version", JNum(1)), Field("generated", JStr(<<generated>>)),
           Field("files", fileSums)>>
         \o (IF mediaSums = Undefined THEN <<>> ELSE <<Field("media", mediaSums)>>)
         \o <<Field("combined", combined)>>)

ChecksumsObjects(generated) ==
    {ChecksumsObject(generated, fileSums, mediaSums, combined) :
       fileSums \in Mappings(FileNames),
       mediaSums \in {Undefined} \cup Mappings(MediaNames),
       combined \in {StaleCombined}} \cup
    {ChecksumsObject(generated, fileSums, mediaSums, combinedHash(fileSums, mediaSums)) :
       fileSums \in Mappings(FileNames),
       mediaSums \in {Undefined} \cup Mappings(MediaNames)}

CompareInit ==
    /\ exported \in ChecksumsObjects("2024-01-02")
    /\ remote \in {Null} \cup ChecksumsObjects("2024-01-01")
    /\ result = NoResult
    /\ HashIdle
    /\ BuildIdle

Compare ==
    /\ result = NoResult
    /\ result' = compareChecksums(exported, remote)
    /\ UNCHANGED <<exported, remote>>
    /\ UNCHANGED <<hashVars, buildVars>>

CompareNext == Compare

SpecCompare == CompareInit /\ [][CompareNext]_vars

----------------------------------------------------------------------------
(* Properties of compareChecksums *)

Compared == result # NoResult
CombinedEqual == Get(exported, "combined") = Get(remote, "combined")
\* The comparison went past the quick check, entry by entry
Detailed == Compared /\ remote # Null /\ ~CombinedEqual

FilesOf(c) == IF Get(c, "files") = Undefined THEN JObj(<<>>) ELSE Get(c, "files")
MediaOf(c) == IF Get(c, "media") = Undefined THEN JObj(<<>>) ELSE Get(c, "media")
Names(mapping) == Range(ObjectKeys(mapping))

\* The names of `mine` that `theirs` lacks or maps to another digest
Differing(mine, theirs) == {k \in Names(mine) : Get(theirs, k) # Get(mine, k)}

\* C1: with a remote set present and equal combined hashes the result is
\* unchanged / "combined-match" / no details, whatever the files and media.
C1_CombinedMatch ==
    (Compared /\ remote # Null /\ CombinedEqual)
        => result = [changed |-> FALSE, reason |-> "combined-match",
                     details |-> [files |-> <<>>, media |-> <<>>]]

\* C1 witness: equal combined hashes over different files and media.
C1_Witness ==
    /\ Compared /\ remote # Null /\ CombinedEqual
    /\ Differing(FilesOf(exported), FilesOf(remote)) # {}
    /\ Differing(MediaOf(exported), MediaOf(remote)) # {}

\* C2 as stated: with no remote set the result is changed /
\* "no-remote-digest" / no details.
C2_NoRemoteDigest ==
    (Compared /\ remote = Null)
        => result = [changed |-> TRUE, reason |-> "no-remote-digest",
                     details |-> [files |-> <<>>, media |-> <<>>]]

\* C2 amended: with no remote set the result is changed /
\* "no-remote-checksums" / no details.
C2_NoRemoteChecksums ==
    (Compared /\ remote = Null)
        => result = [changed |-> TRUE, reason |-> "no-remote-checksums",
                     details |-> [files |-> <<>>, media |-> <<>>]]

\* C2 witness: an export with files and media was compared with no remote set.
C2_Witness ==
    /\ Compared /\ remote = Null
    /\ Names(FilesOf(exported)) = FileNames
    /\ Names(MediaOf(exported)) # {}

\* C3: past the quick check, details.files lists, in the order of the
\* export's files, exactly the names whose digest the remote files lack or
\* hold differently; a name only the remote files hold is not listed, and
\* does not make changed true when nothing of the export differs.
C3_ChangedFiles ==
    Detailed =>
        LET differs(k) == k \in Differing(FilesOf(exported), FilesOf(remote))
        IN  /\ result.details.files =
                  SelectSeq(ObjectKeys(FilesOf(exported)), differs)
            /\ \A k \in Names(FilesOf(remote)) \ Names(FilesOf(exported)) :
                  k \notin Range(result.details.files)
            /\ (Differing(FilesOf(exported), FilesOf(remote)) = {} /\
                 Differing(MediaOf(exported), MediaOf(remote)) = {})
                   => ~result.changed

\* C3 witness: one export file differs, the other does not, and the remote
\* set holds a file the export lacks next to equal media.
C3_Witness ==
    /\ Detailed
    /\ result.details.files = <<"metadata.json">>
    /\ Names(FilesOf(exported)) = {"metadata.json"}
    /\ Names(FilesOf(remote)) = FileNames

\* C3 second witness of the order: both files differ, metadata.json first.
C3_OrderWitness ==
    /\ Detailed
    /\ result.details.files = <<"metadata.json", "body.html">>

NoDuplicates(seq) == \A i, j \in 1..Len(seq) : i # j => seq[i] # seq[j]

\* Both sets carry the combined hash of their own files and media
Valid(c) == Get(c, "combined") = combinedHash(FilesOf(c), Get(c, "media"))

\* C4: no name occurs twice in details.media of any result; whenever the
\* media were compared (past the quick check), and also on the quick path of
\* two sets whose combined hashes are current, details.media holds exactly
\* the export's media names that the remote media lack or hold differently.
C4_MediaOnce ==
    Compared =>
        /\ NoDuplicates(result.details.media)
        /\ (Detailed \/ (remote # Null /\ Valid(exported) /\ Valid(remote)))
              => Range(result.details.media) =
                   Differing(MediaOf(exported), MediaOf(remote))

\* C4 witness: photo.jpg is new (the remote set has no media at all),
\* logo.png is new as well, and both are listed.
C4_Witness ==
    /\ Detailed
    /\ Get(remote, "media") = Undefined
    /\ Names(MediaOf(exported)) = MediaNames
    /\ Len(result.details.media) = 2

\* C10: past the quick check, changed holds exactly when details.files or
\* details.media is not empty, reason is "content-changed" when changed and
\* "match" otherwise, and an export whose every entry the remote set holds
\* with an equal digest yields unchanged / "match".
C10_Verdict ==
    Detailed =>
        /\ result.changed =
              (result.details.files # <<>> \/ result.details.media # <<>>)
        /\ result.reason = IF result.changed THEN "content-changed" ELSE "match"
        /\ (Differing(FilesOf(exported), FilesOf(remote)) = {} /\
             Differing(MediaOf(exported), MediaOf(remote)) = {})
               => (result.changed = FALSE /\ result.reason = "match")

\* C10 witness: current combined hashes differ although every entry of the
\* export is in the remote set with an equal digest.
C10_Witness ==
    /\ Detailed
    /\ Valid(exported) /\ Valid(remote)
    /\ Names(FilesOf(exported)) # {}
    /\ Names(MediaOf(exported)) # {}
    /\ result.reason = "match"

\* C10 second witness: only a media entry differs.
C10_MediaWitness ==
    /\ Detailed
    /\ result.details.files = <<>>
    /\ result.changed

----------------------------------------------------------------------------
(* Properties of generateChecksums.  history holds, for every call that    *)
(* returned, the directory it read and the object it returned.             *)

Returned == 1..Len(history)
CombinedOf(c) == Get(c, "combined")

\* Some name is mapped to a digest by one of the two objects and to another
\* digest, or to none, by the other
EntryDiffers(a, b) ==
    \/ \E k \in Names(FilesOf(a)) \cup Names(FilesOf(b)) :
         Get(FilesOf(a), k) # Get(FilesOf(b), k)
    \/ \E k \in Names(MediaOf(a)) \cup Names(MediaOf(b)) :
         Get(MediaOf(a), k) # Get(MediaOf(b), k)

\* C8: the combined hash of every returned object is the hash of the
\* serialized files followed by the serialized media ({} when absent) and of
\* nothing else: calls that read the same directory, or that return equal
\* files and media, return equal combined hashes whatever their generated
\* timestamps, and calls whose files or media differ in the digest of an
\* entry return different combined hashes.
C8_CombinedDerived ==
    \A m \in Returned, n \in Returned :
       LET a == history[m].out
           b == history[n].out
       IN  /\ CombinedOf(a) =
                 JStr(sha256(JSONstringify(Get(a, "files")) \o
                             JSONstringify(MediaOf(a))))
           /\ history[m].dir = history[n].dir => CombinedOf(a) = CombinedOf(b)
           /\ (Get(a, "files") = Get(b, "files") /\ MediaOf(a) = MediaOf(b))
                 => CombinedOf(a) = CombinedOf(b)
           /\ EntryDiffers(a, b) => CombinedOf(a) # CombinedOf(b)

\* C8 witness: two calls read the same directory, with files and media in
\* it, at different times.
C8_Witness ==
    /\ Len(history) = 2
    /\ history[1].dir = history[2].dir
    /\ Get(history[1].out, "generated") # Get(history[2].out, "generated")
    /\ Names(FilesOf(history[1].out)) # {}
    /\ Names(MediaOf(history[1].out)) # {}
    /\ CombinedOf(history[1].out) = CombinedOf(history[2].out)

\* C8 second witness: between two calls the digest of one media file changed
\* and nothing else did.
C8_EntryWitness ==
    /\ Len(history) = 2
    /\ Get(history[1].out, "files") = Get(history[2].out, "files")
    /\ Names(MediaOf(history[1].out)) = Names(MediaOf(history[2].out))
    /\ Cardinality(Differing(MediaOf(history[1].out), MediaOf(history[2].out))) = 1
    /\ CombinedOf(history[1].out) # CombinedOf(history[2].out)

\* C8 third witness: a call on a directory without media.
C8_NoMediaWitness ==
    \E n \in Returned :
       /\ Get(history[n].out, "media") = Undefined
       /\ Names(FilesOf(history[n].out)) # {}

\* The entries of dir that generateChecksums is to hash into files
FileEntries(dir) ==
    {e \in Range(dir.entries) :
       \/ e.name \in {"body.html", "metadata.json"}
       \/ endsWithJson(e.name) /\ ~reserved(e.name) /\ e.node.kind = "file"}

\* The entries of the media directory that it is to hash into media
MediaEntries(dir) ==
    {e \in Range(Child(dir, "media").entries) : e.node.kind = "file"}

IsJson(node) == node.kind = "file" /\ "json" \in DOMAIN node.content

DigestOfEntry(e) ==
    IF e.name = "metadata.json"
    THEN hashObject(e.node.content.json, <<>>)
    ELSE JStr(sha256(Bytes(e.node.content)))

\* out has a digest for every listed file of dir, and for nothing else
Covers(out, dir) ==
    /\ dir.kind = "dir"
    /\ Get(out, "files") # Undefined
    /\ Names(FilesOf(out)) = {e.name : e \in FileEntries(dir)}
    /\ \A e \in FileEntries(dir) :
         /\ e.node.kind = "file"
         /\ e.name = "metadata.json" => IsJson(e.node)
         /\ Get(FilesOf(out), e.name) = DigestOfEntry(e)
    /\ IF Child(dir, "media") = Missing
       THEN Get(out, "media") = Undefined
       ELSE /\ Child(dir, "media").kind = "dir"
            /\ Get(out, "media") # Undefined
            /\ Names(MediaOf(out)) = {e.name : e \in MediaEntries(dir)}
            /\ \A e \in MediaEntries(dir) :
                 Get(MediaOf(out), e.name) = DigestOfEntry(e)
    /\ CombinedOf(out) =
          JStr(sha256(JSONstringify(FilesOf(out)) \o JSONstringify(MediaOf(out))))

\* C9: a call either returns an object that covers every listed file of the
\* directory, or it fails: once an awaited read, stat, readdir or parse has
\* failed the call is over, rejected with that error, and has returned
\* nothing; a missing directory, or a file that cannot be read or parsed,
\* never ends in a returned object.
C9_AbortsOrCovers ==
    /\ failed # NoError => (pc = "thrown" /\ settled = Rejected(failed))
    /\ pc = "thrown" =>
         (failed # NoError /\ settled = Rejected(failed) /\ checksums = NoValue)
    /\ pc # "returned" => Len(history) < calls \/ calls = 0
    /\ pc = "returned" =>
         /\ failed = NoError
         /\ Len(history) \in 1..calls
         /\ settled = Fulfilled(history[Len(history)].out)
    /\ \A n \in Returned : Covers(history[n].out, history[n].dir)

\* C9 witness: a call on a directory that an earlier call covered fails on a
\* read; it returns nothing.
C9_Witness ==
    /\ pc = "thrown"
    /\ failed = "EIO"
    /\ calls = 2
    /\ Len(history) = 1
    /\ history[1].dir = contentDir
    /\ Names(MediaOf(history[1].out)) # {}

\* C9 second witness: the directory is missing.
C9_MissingRootWitness ==
    /\ pc = "thrown"
    /\ contentDir = Missing
    /\ settled = Rejected("ENOENT")

\* C9 third witness: metadata.json is not a JSON document.
C9_ParseWitness ==
    /\ pc = "thrown"
    /\ settled = Rejected("SyntaxError")

\* C9 fourth witness: a stat fails after files have been hashed.
C9_StatWitness ==
    /\ pc = "thrown"
    /\ settled = Rejected("EACCES")
    /\ contentDir = ExportedDir

====
